---- MODULE Spec2Model ----
(***************************************************************************)
(* A model of the toxic-text preprocessing code:                           *)
(*   src/preprocessing/feature_engineering.py  Sanitize, JoinAndSanitize,  *)
(*       Tfidfize, TfidfAndPredict, main                                   *)
(*   src/preprocessing.py   TextPreprocessor, text_normalization           *)
(*                                                                         *)
(* A text is a sequence of characters; a character is a one-letter string, *)
(* or one of the names LF, CR, TAB, KELVIN (U+212A) for a character that   *)
(* has no plain spelling.  A missing text (pandas NaN / None) is NaN.      *)
(***************************************************************************)
EXTENDS Integers, Sequences, FiniteSets, TLC

VARIABLES
    san_fn,      \* which sanitizer the text of san_hist goes through
    san_hist     \* <<x, f(x), f(f(x)), ...>>: a raw text and its sanitizations

VARIABLES
    cmt,         \* JoinAndSanitize's comment table: rows [rev_id, comment]
    annot,       \* JoinAndSanitize's annotation table: rows [rev_id, value]
    join_df      \* what JoinAndSanitize returned: <<df>>, or <<>> before the call

VARIABLES
    tp,          \* the TextPreprocessor's configuration (set by __init__)
    tokenizer,   \* self.tokenizer, the keras Tokenizer
    train_csv,   \* the comment_text column of the train file
    test_csv,    \* the comment_text column of the test file
    lt,          \* the last load_and_tokenize call: its locals and outcome
    ss,          \* the last tokenize_single_sentence call: argument and outcome
    tp_last,     \* the method called last
    tp_calls     \* the number of method calls so far

sanVars == << san_fn, san_hist >>
joinVars == << cmt, annot, join_df >>
VARIABLES
    pc,          \* where feature_engineering.main is
    files,       \* the tables main reads: three annotated corpora, train, test
    corpus,      \* toxic, attack, aggression: what JoinAndSanitize returned
    tfidf,       \* per label [X, tfidfer]: what Tfidfize returned
    heap,        \* the Ridge objects main has created; heap[i] is object i
    models,      \* model_toxic, model_attack, model_aggression: object ids
    frames,      \* the train and test dataframes, by column
    scores       \* per label [train, test]: what TfidfAndPredict returned

tpVars == << tp, tokenizer, train_csv, test_csv, lt, ss, tp_last, tp_calls >>
mainVars == << pc, files, corpus, tfidf, heap, models, frames, scores >>
vars == << sanVars, joinVars, tpVars, mainVars >>

----------------------------------------------------------------------------
(* Characters and strings                                                  *)

AsciiLower ==
    << "a","b","c","d","e","f","g","h","i","j","k","l","m",
       "n","o","p","q","r","s","t","u","v","w","x","y","z" >>

AsciiUpper ==
    << "A","B","C","D","E","F","G","H","I","J","K","L","M",
       "N","O","P","Q","R","S","T","U","V","W","X","Y","Z" >>

Range(f) == { f[i] : i \in DOMAIN f }

AsciiLetters == Range(AsciiLower) \cup Range(AsciiUpper)

\* [a-zA-Z]
IsAsciiLetter(c) == c \in AsciiLetters

\* [a-z] under re.IGNORECASE on a str pattern: the 52 ASCII letters and the
\* non-ASCII letters whose case folding is an ASCII letter.
IsIgnoreCaseLetter(c) == IsAsciiLetter(c) \/ c \in {"KELVIN", "LONG_S"}

\* \s
IsSpace(c) == c \in {" ", "LF", "CR", "TAB"}

LowerOf ==
    [c \in Range(AsciiUpper) |->
        AsciiLower[CHOOSE i \in DOMAIN AsciiUpper : AsciiUpper[i] = c]]

\* str.lower() of one character
LowerChar(c) == IF c \in DOMAIN LowerOf THEN LowerOf[c] ELSE c

\* x.lower()
lower(s) == [i \in DOMAIN s |-> LowerChar(s[i])]

RECURSIVE Flatten(_)
Flatten(seqs) == IF seqs = <<>> THEN <<>> ELSE Head(seqs) \o Flatten(Tail(seqs))

DropFirst(s, n) == SubSeq(s, n + 1, Len(s))

StartsWith(s, p) == Len(s) >= Len(p) /\ SubSeq(s, 1, Len(p)) = p

\* x.replace(old, new): every non-overlapping occurrence, left to right
RECURSIVE str_replace(_, _, _)
str_replace(s, old, new) ==
    IF Len(s) < Len(old) THEN s
    ELSE IF StartsWith(s, old)
         THEN new \o str_replace(DropFirst(s, Len(old)), old, new)
         ELSE <<Head(s)>> \o str_replace(Tail(s), old, new)

\* length of the longest prefix of s whose characters all satisfy the test
RECURSIVE SpaceRun(_)
SpaceRun(s) == IF s # <<>> /\ IsSpace(Head(s)) THEN 1 + SpaceRun(Tail(s)) ELSE 0

RECURSIVE NonSpaceRun(_)
NonSpaceRun(s) ==
    IF s # <<>> /\ ~IsSpace(Head(s)) THEN 1 + NonSpaceRun(Tail(s)) ELSE 0

RECURSIVE BangRun(_)
BangRun(s) == IF s # <<>> /\ Head(s) = "!" THEN 1 + BangRun(Tail(s)) ELSE 0

RECURSIVE NotLFRun(_)
NotLFRun(s) == IF s # <<>> /\ Head(s) # "LF" THEN 1 + NotLFRun(Tail(s)) ELSE 0

RECURSIVE NewlineRun(_)
NewlineRun(s) ==
    IF s # <<>> /\ Head(s) \in {"LF", "CR"} THEN 1 + NewlineRun(Tail(s)) ELSE 0

\* re.sub('\s+', ' ', x)
RECURSIVE sub_spaces(_)
sub_spaces(s) ==
    IF s = <<>> THEN <<>>
    ELSE IF IsSpace(Head(s))
         THEN <<" ">> \o sub_spaces(DropFirst(s, SpaceRun(s)))
         ELSE <<Head(s)>> \o sub_spaces(Tail(s))

\* x.strip()
RECURSIVE rstrip(_)
rstrip(s) ==
    IF s # <<>> /\ IsSpace(s[Len(s)]) THEN rstrip(SubSeq(s, 1, Len(s) - 1)) ELSE s

strip(s) == rstrip(DropFirst(s, SpaceRun(s)))

NaN == << "NaN" >>
unk == << "u", "n", "k" >>

\* fillna('unk')
fillna(x) == IF x = NaN THEN unk ELSE x

----------------------------------------------------------------------------
(* feature_engineering.Sanitize, one comment                               *)

NEWLINE_TOKEN == << "N","E","W","L","I","N","E","_","T","O","K","E","N" >>
TAB_TOKEN == << "T","A","B","_","T","O","K","E","N" >>

HttpPrefixes ==
    << << "h","t","t","p",":","/","/","w","w","w","." >>,
       << "h","t","t","p","s",":","/","/","w","w","w","." >>,
       << "h","t","t","p",":","/","/" >>,
       << "h","t","t","p","s",":","/","/" >> >>

\* re.sub(http_regex, ' ', x): the pattern is anchored at the start of the text;
\* after the prefix, .* runs to the end of the line and [\r\n]* takes the line
\* breaks that follow.
sub_http(s) ==
    IF \E i \in DOMAIN HttpPrefixes : StartsWith(s, HttpPrefixes[i])
    THEN LET i == CHOOSE j \in DOMAIN HttpPrefixes :
                     /\ StartsWith(s, HttpPrefixes[j])
                     /\ \A k \in 1..(j - 1) : ~StartsWith(s, HttpPrefixes[k])
             afterPrefix == DropFirst(s, Len(HttpPrefixes[i]))
             afterLine == DropFirst(afterPrefix, NotLFRun(afterPrefix))
         IN  <<" ">> \o DropFirst(afterLine, NewlineRun(afterLine))
    ELSE s

\* re.sub(email_regex, ' ', x), email_regex = \S*@\S*\s?
RECURSIVE sub_email(_)
sub_email(s) ==
    IF s = <<>> THEN <<>>
    ELSE LET run == NonSpaceRun(s)
         IN  IF \E k \in 1..run : s[k] = "@"
             THEN LET end == IF run < Len(s) THEN run + 1 ELSE run
                  IN  <<" ">> \o sub_email(DropFirst(s, end))
             ELSE <<Head(s)>> \o sub_email(Tail(s))

you == << "y", "o", "u" >>

\* re.sub(u_regex, 'you', x, flags=re.IGNORECASE), u_regex = (?<![a-z])u(?![a-z])
sub_u(s) ==
    Flatten([i \in DOMAIN s |->
        IF /\ s[i] \in {"u", "U"}
           /\ (i = 1 \/ ~IsIgnoreCaseLetter(s[i - 1]))
           /\ (i = Len(s) \/ ~IsIgnoreCaseLetter(s[i + 1]))
        THEN you
        ELSE <<s[i]>>])

\* re.sub(r"[^a-zA-Z!]", ' ', x)
sub_not_letter_or_bang(s) ==
    [i \in DOMAIN s |-> IF IsAsciiLetter(s[i]) \/ s[i] = "!" THEN s[i] ELSE " "]

\* re.sub('\!+', '! ', x)
RECURSIVE sub_bangs(_)
sub_bangs(s) ==
    IF s = <<>> THEN <<>>
    ELSE IF Head(s) = "!"
         THEN <<"!", " ">> \o sub_bangs(DropFirst(s, BangRun(s)))
         ELSE <<Head(s)>> \o sub_bangs(Tail(s))

Sanitize(x) ==
    LET s1 == str_replace(fillna(x), NEWLINE_TOKEN, <<" ">>)
        s2 == str_replace(s1, TAB_TOKEN, <<" ">>)
        s3 == sub_http(s2)
        s4 == sub_email(s3)
        s5 == sub_u(s4)
        s6 == sub_not_letter_or_bang(s5)
        s7 == sub_bangs(s6)
        s8 == strip(sub_spaces(s7))
    IN  lower(s8)

----------------------------------------------------------------------------
(* preprocessing.text_normalization, one comment                           *)

\* re.sub(r"[^a-zA-Z]", ' ', x)
sub_not_letter(s) == [i \in DOMAIN s |-> IF IsAsciiLetter(s[i]) THEN s[i] ELSE " "]

http == << "h", "t", "t", "p" >>

text_normalization(x) ==
    LET s1 == sub_not_letter(fillna(x))
        s2 == strip(sub_spaces(s1))
        s3 == str_replace(s2, http, <<>>)
    IN  lower(s3)

----------------------------------------------------------------------------
(* The sanitizers applied to a text, and applied again to their own output *)

MaxPieces == 3      \* a raw text is made of at most this many pieces
MaxApply == 2       \* a sanitizer is applied at most this many times in a row

Pieces ==
    { <<"u">>, <<"U">>, <<"a">>, <<"!">>, <<" ">>, <<"@">>, <<"LF">>, <<"KELVIN">>,
      <<"h","t">>, <<"t","p">>, http, <<"H","T","T","P">>,
      <<"h","t","t","p",":","/","/">>, TAB_TOKEN }

RECURSIVE PieceTexts(_)
PieceTexts(n) ==
    IF n = 0 THEN { <<>> }
    ELSE LET shorter == PieceTexts(n - 1)
         IN  shorter \cup { t \o p : t \in shorter, p \in Pieces }

\* the texts of the spec's end-to-end example
ExampleLove == << "I"," ","L","O","V","E"," ","t","h","i","s","!","!" >>
ExampleUrl ==
    << "h","t","t","p",":","/","/","x",".","c","o","m"," ",
       "y","o","u"," ","a","r","e"," ","u" >>

RawTexts == PieceTexts(MaxPieces) \cup { NaN, ExampleLove, ExampleUrl }

Last(s) == s[Len(s)]

SanIdle == san_fn = "none" /\ san_hist = <<>>

JoinIdle == cmt = <<>> /\ annot = <<>> /\ join_df = <<>>

TpIdle ==
    /\ tp = <<>> /\ tokenizer = <<>> /\ train_csv = <<>> /\ test_csv = <<>>
    /\ lt = <<>> /\ ss = <<>> /\ tp_last = "none" /\ tp_calls = 0

MainIdle ==
    /\ pc = "idle" /\ files = <<>> /\ corpus = <<>> /\ tfidf = <<>>
    /\ heap = <<>> /\ models = <<>> /\ frames = <<>> /\ scores = <<>>

SanInit ==
    /\ JoinIdle /\ TpIdle /\ MainIdle
    /\ san_fn \in {"Sanitize", "text_normalization"}
    /\ \E x \in RawTexts : san_hist = <<x>>

\* df[comment].apply(...) of Sanitize on one row
ApplySanitize ==
    /\ san_fn = "Sanitize"
    /\ Len(san_hist) <= MaxApply
    /\ san_hist' = Append(san_hist, Sanitize(Last(san_hist)))
    /\ UNCHANGED << san_fn, joinVars, tpVars, mainVars >>

\* text_data['comment_text'].apply(...) of text_normalization on one row
ApplyTextNormalization ==
    /\ san_fn = "text_normalization"
    /\ Len(san_hist) <= MaxApply
    /\ san_hist' = Append(san_hist, text_normalization(Last(san_hist)))
    /\ UNCHANGED << san_fn, joinVars, tpVars, mainVars >>

SanNext == ApplySanitize \/ ApplyTextNormalization

SpecSanitize == SanInit /\ [][SanNext]_vars

\* C2: sanitization is idempotent, for Sanitize and for text_normalization:
\* sanitizing a sanitizer's own output returns that output unchanged.
C2_SanitizeIdempotent ==
    Len(san_hist) >= 3 => san_hist[3] = san_hist[2]

you_are_you == << "y","o","u"," ","a","r","e"," ","y","o","u" >>
i_love_this == << "i"," ","l","o","v","e"," ","t","h","i","s" >>

\* C5: a text that begins with an http URL loses the URL and keeps the words
\* after it, a standalone u becoming you; a missing text becomes unk; the
\* three example inputs yield "i love this", "unk", "you are you".
C5_UrlExample ==
    Len(san_hist) >= 2 =>
        /\ san_hist[1] = ExampleUrl => san_hist[2] = you_are_you
        /\ san_hist[1] = NaN => san_hist[2] = unk
        /\ (san_fn = "text_normalization" /\ san_hist[1] = ExampleLove)
               => san_hist[2] = i_love_this

----------------------------------------------------------------------------
(* feature_engineering.JoinAndSanitize                                     *)

RECURSIVE Gcd(_, _)
Gcd(a, b) == IF b = 0 THEN a ELSE Gcd(b, a % b)

RECURSIVE SumSeq(_)
SumSeq(s) == IF s = <<>> THEN 0 ELSE Head(s) + SumSeq(Tail(s))

RECURSIVE SelectRows(_, _)
SelectRows(table, id) ==
    IF table = <<>> THEN <<>>
    ELSE IF Head(table).rev_id = id
         THEN <<Head(table)>> \o SelectRows(Tail(table), id)
         ELSE SelectRows(Tail(table), id)

\* a score is a fraction in lowest terms; NaNScore is pandas' NaN
NaNScore == [num |-> 0, den |-> 0]
Fraction(n, d) == [num |-> n \div Gcd(n, d), den |-> d \div Gcd(n, d)]

\* .mean() of a non-empty column of annotation values
mean(values) == Fraction(SumSeq(values), Len(values))

\* annot.groupby(['rev_id']).mean(): one row per rev_id of annot
groupby_mean(table) ==
    [id \in { table[i].rev_id : i \in DOMAIN table } |->
        LET rows == SelectRows(table, id)
        IN  mean([i \in DOMAIN rows |-> rows[i].value])]

\* cmt.set_index('rev_id').join(right): a left join on the index, every row of
\* cmt kept, in cmt's order; a rev_id that right does not hold gets NaN
left_join(left, right) ==
    [i \in DOMAIN left |->
        [rev_id |-> left[i].rev_id,
         comment |-> left[i].comment,
         score |-> IF left[i].rev_id \in DOMAIN right
                   THEN right[left[i].rev_id] ELSE NaNScore]]

\* Sanitize(df): the comment column of every row
SanitizeFrame(df) ==
    [i \in DOMAIN df |-> [df[i] EXCEPT !.comment = Sanitize(df[i].comment)]]

JoinAndSanitize(c, a) == SanitizeFrame(left_join(c, groupby_mean(a)))

MaxRevId == 2        \* rev_ids are 1..MaxRevId
MaxCmtRows == 2      \* rows of a comment table
MaxAnnotRows == 3    \* rows of an annotation table
MaxScore == 2        \* an annotation value is 0..MaxScore

RECURSIVE Tables(_, _)
Tables(rows, n) ==
    IF n = 0 THEN { <<>> }
    ELSE LET shorter == Tables(rows, n - 1)
         IN  shorter \cup { Append(t, r) : t \in shorter, r \in rows }

JoinComments == { <<"U">>, NaN }

CmtTables ==
    Tables([rev_id : 1..MaxRevId, comment : JoinComments], MaxCmtRows)

AnnotTables ==
    Tables([rev_id : 1..MaxRevId, value : 0..MaxScore], MaxAnnotRows)

JoinInit ==
    /\ SanIdle /\ TpIdle /\ MainIdle
    /\ cmt \in CmtTables
    /\ annot \in AnnotTables
    /\ join_df = <<>>

JoinAndSanitizeCall ==
    /\ join_df = <<>>
    /\ join_df' = << JoinAndSanitize(cmt, annot) >>
    /\ UNCHANGED << cmt, annot, sanVars, tpVars, mainVars >>

JoinNext == JoinAndSanitizeCall

SpecJoin == JoinInit /\ [][JoinNext]_vars

RowsOf(df, id) == { i \in DOMAIN df : df[i].rev_id = id }

\* C6: every id of the comment table that has k >= 1 annotations gets exactly
\* one output row, scored with the arithmetic mean of its k annotation values,
\* and no id gets more than one row, whatever duplicates the two tables hold.
C6_OneRowPerIdWithMean ==
    join_df # <<>> =>
        LET df == join_df[1]
        IN  /\ \A id \in { annot[i].rev_id : i \in DOMAIN annot }
                          \cap { cmt[i].rev_id : i \in DOMAIN cmt } :
                  /\ Cardinality(RowsOf(df, id)) = 1
                  /\ \A i \in RowsOf(df, id) :
                        LET rows == SelectRows(annot, id)
                        IN  /\ df[i].score.den # 0
                            /\ df[i].score.num * Len(rows) =
                                   df[i].score.den * SumSeq([j \in DOMAIN rows |-> rows[j].value])
            /\ \A id \in 1..MaxRevId : Cardinality(RowsOf(df, id)) <= 1

----------------------------------------------------------------------------
(* keras.preprocessing.text.Tokenizer and sequence.pad_sequences, as       *)
(* preprocessing.TextPreprocessor uses them                                *)

\* the characters of the Tokenizer's default filters that a modelled text holds
KerasFilters == { "!", "@", ":", "/", ".", "_", "TAB", "LF" }

RECURSIVE WordRun(_)
WordRun(s) == IF s # <<>> /\ Head(s) # " " THEN 1 + WordRun(Tail(s)) ELSE 0

\* text.split(' ') without the empty strings
RECURSIVE split_words(_)
split_words(s) ==
    IF s = <<>> THEN <<>>
    ELSE IF Head(s) = " " THEN split_words(Tail(s))
         ELSE LET n == WordRun(s)
              IN  <<SubSeq(s, 1, n)>> \o split_words(DropFirst(s, n))

\* text_to_word_sequence(text): lower, filters turned into the split
\* character, split on ' ', empty strings dropped
text_to_word_sequence(text) ==
    LET low == lower(text)
    IN  split_words([i \in DOMAIN low |->
                        IF low[i] \in KerasFilters THEN " " ELSE low[i]])

\* word_counts[w] += 1, a new word entering the OrderedDict at its end
count_word(counts, w) ==
    IF \E i \in DOMAIN counts : counts[i].w = w
    THEN [i \in DOMAIN counts |->
             IF counts[i].w = w THEN [counts[i] EXCEPT !.n = @ + 1] ELSE counts[i]]
    ELSE Append(counts, [w |-> w, n |-> 1])

RECURSIVE count_words(_, _)
count_words(counts, words) ==
    IF words = <<>> THEN counts
    ELSE count_words(count_word(counts, Head(words)), Tail(words))

\* wcounts.sort(key=lambda x: x[1], reverse=True): a stable sort, so words of
\* equal count keep the order in which they were first seen
RECURSIVE sort_by_count(_)
sort_by_count(counts) ==
    IF counts = <<>> THEN <<>>
    ELSE LET rest == sort_by_count(SubSeq(counts, 1, Len(counts) - 1))
             e == counts[Len(counts)]
             k == Cardinality({ i \in DOMAIN rest : rest[i].n >= e.n })
         IN  SubSeq(rest, 1, k) \o <<e>> \o DropFirst(rest, k)

\* Tokenizer(num_words=...).  Whether __init__ sets word_index depends on the
\* keras release: the ones that do not set it until fit_on_texts.
Tokenizer(num_words, init_sets_word_index) ==
    [num_words |-> num_words, word_counts |-> <<>>, word_index |-> <<>>,
     has_word_index |-> init_sets_word_index, document_count |-> 0]

\* Tokenizer.fit_on_texts(texts): the counts add to those already held, and
\* word_index is rebuilt from all of them; the word of index i is word_index[i]
fit_on_texts(tok, texts) ==
    LET counts == count_words(tok.word_counts,
                      Flatten([i \in DOMAIN texts |-> text_to_word_sequence(texts[i])]))
        sorted == sort_by_count(counts)
    IN  [tok EXCEPT !.word_counts = counts,
                    !.word_index = [i \in DOMAIN sorted |-> sorted[i].w],
                    !.has_word_index = TRUE,
                    !.document_count = @ + Len(texts)]

\* self.word_index.get(w): 0 stands for None
index_of(word_index, w) ==
    IF \E i \in DOMAIN word_index : word_index[i] = w
    THEN CHOOSE i \in DOMAIN word_index : word_index[i] = w
    ELSE 0

\* the body of texts_to_sequences_generator for one text (oov_token is None)
RECURSIVE encode_words(_, _)
encode_words(tok, words) ==
    IF words = <<>> THEN <<>>
    ELSE LET i == index_of(tok.word_index, Head(words))
         IN  IF i = 0 \/ (tok.num_words # 0 /\ i >= tok.num_words)
             THEN encode_words(tok, Tail(words))
             ELSE <<i>> \o encode_words(tok, Tail(words))

\* Tokenizer.texts_to_sequences(texts); a Tokenizer without word_index raises
\* AttributeError at the first word it looks up
texts_to_sequences(tok, texts) ==
    LET words == [i \in DOMAIN texts |-> text_to_word_sequence(texts[i])]
    IN  IF ~tok.has_word_index /\ \E i \in DOMAIN words : words[i] # <<>>
        THEN [status |-> "AttributeError", value |-> <<>>]
        ELSE [status |-> "ok",
              value |-> [i \in DOMAIN words |-> encode_words(tok, words[i])]]

\* pad_sequences, one row, padding='pre', truncating='pre', value=0:
\*   x = zeros(maxlen); if not len(s): continue
\*   trunc = s[-maxlen:]; x[-len(trunc):] = trunc
pad_row_post(s, maxlen) ==
    LET trunc == SubSeq(s, 1, IF Len(s) > maxlen THEN maxlen ELSE Len(s))
    IN  [j \in 1..maxlen |-> IF j <= Len(trunc) THEN trunc[j] ELSE 0]

pad_row(s, maxlen) ==
    LET trunc == IF Len(s) > maxlen THEN DropFirst(s, Len(s) - maxlen) ELSE s
        pad == maxlen - Len(trunc)
    IN  [j \in 1..maxlen |-> IF j > pad THEN trunc[j - pad] ELSE 0]

pad_sequences(seqs, maxlen) == [i \in DOMAIN seqs |-> pad_row(seqs[i], maxlen)]

----------------------------------------------------------------------------
(* preprocessing.TextPreprocessor                                          *)

\* TextPreprocessor.train_tokenizer
train_tokenizer(cfg, tok, train_data, test_data) ==
    IF cfg.combine_data
    THEN fit_on_texts(tok, train_data \o test_data)
    ELSE fit_on_texts(tok, train_data)

\* text_normalization(text_data): the comment_text column of every row
NormalizeColumn(col) == [i \in DOMAIN col |-> text_normalization(col[i])]

\* sample_index=None
None == -1

\* TextPreprocessor.load_and_tokenize: the tokenizer it leaves and its locals.
\* sample_text and sample_target are bound only under `sample_index is not
\* None`, so the return statement raises UnboundLocalError without it.
load_and_tokenize(cfg, tok, train, test, sample_index) ==
    LET train_comments == NormalizeColumn(train)
        test_comments == NormalizeColumn(test)
        tok1 == train_tokenizer(cfg, tok, train_comments, test_comments)
        train_comments_tokenized == texts_to_sequences(tok1, train_comments).value
        test_comments_tokenized == texts_to_sequences(tok1, test_comments).value
    IN  [tokenizer |-> tok1,
         locals |->
            [status |-> IF sample_index = None THEN "UnboundLocalError" ELSE "ok",
             train_comments |-> train_comments,
             train_comments_tokenized |-> train_comments_tokenized,
             test_comments_tokenized |-> test_comments_tokenized,
             word_index |-> tok1.word_index,
             X_train |-> pad_sequences(train_comments_tokenized, cfg.max_padding_length),
             X_test |-> pad_sequences(test_comments_tokenized, cfg.max_padding_length)]]

\* TextPreprocessor.tokenize_single_sentence: texts_to_sequences is handed the
\* str itself and iterates over it, so every character is a text of its own
tokenize_single_sentence(cfg, tok, sentence) ==
    LET s1 == sub_not_letter(sentence)
        s2 == strip(sub_spaces(s1))
        s3 == lower(s2)
        tokenized_sentence == texts_to_sequences(tok, [i \in DOMAIN s3 |-> <<s3[i]>>])
    IN  IF tokenized_sentence.status # "ok"
        THEN [status |-> tokenized_sentence.status, sentence |-> sentence, value |-> <<>>]
        ELSE [status |-> "ok", sentence |-> sentence,
              value |-> pad_sequences(tokenized_sentence.value, cfg.max_nb_words)]

MaxNbWords == 3          \* max_nb_words is 1..MaxNbWords
MaxPaddingLength == 3    \* max_padding_length is 1..MaxPaddingLength
MaxCalls == 2            \* method calls on one TextPreprocessor

\* the comment_text columns the files may hold
TrainFiles ==
    { << <<"a"," ","a"," ","a">>, <<"b"," ","b">>, <<"c">> >>,
      << <<"A"," ","b"," ","a"," ","b">>, <<"a">>, NaN, <<"!">> >>,
      << <<"a","b"," ","b">>, <<"b"," ","a","b"," ","c"," ","b"," ","a","b">> >> }

TestFiles ==
    { << <<"c"," ","c">> >>,
      << <<"b">>, <<"a","b"," ","a","b"," ","a","b">> >> }

Sentences ==
    { <<"a">>, <<"a","b">>, <<"B"," ","a","!">> }

\* what a caller hands train_tokenizer: normalized comment columns
TrainData == { NormalizeColumn(f) : f \in TrainFiles }
TestData == { NormalizeColumn(f) : f \in TestFiles }

TpInit ==
    /\ SanIdle /\ JoinIdle /\ MainIdle
    /\ \E n \in 1..MaxNbWords, l \in 1..MaxPaddingLength, c \in BOOLEAN, w \in BOOLEAN :
          /\ tp = [max_nb_words |-> n, max_padding_length |-> l, combine_data |-> c]
          /\ tokenizer = Tokenizer(n, w)
    /\ train_csv \in TrainFiles
    /\ test_csv \in TestFiles
    /\ lt = <<>> /\ ss = <<>> /\ tp_last = "none" /\ tp_calls = 0

TrainTokenizer ==
    /\ tp_calls < MaxCalls
    /\ \E train_data \in TrainData, test_data \in TestData :
          tokenizer' = train_tokenizer(tp, tokenizer, train_data, test_data)
    /\ tp_last' = "train_tokenizer"
    /\ tp_calls' = tp_calls + 1
    /\ UNCHANGED << tp, train_csv, test_csv, lt, ss, sanVars, joinVars, mainVars >>

LoadAndTokenize ==
    /\ tp_calls < MaxCalls
    /\ \E sample_index \in { None, 0 } :
          LET r == load_and_tokenize(tp, tokenizer, train_csv, test_csv, sample_index)
          IN  /\ tokenizer' = r.tokenizer
              /\ lt' = << r.locals >>
    /\ tp_last' = "load_and_tokenize"
    /\ tp_calls' = tp_calls + 1
    /\ UNCHANGED << tp, train_csv, test_csv, ss, sanVars, joinVars, mainVars >>

TokenizeSingleSentence ==
    /\ tp_calls < MaxCalls
    /\ \E sentence \in Sentences :
          ss' = << tokenize_single_sentence(tp, tokenizer, sentence) >>
    /\ tp_last' = "tokenize_single_sentence"
    /\ tp_calls' = tp_calls + 1
    /\ UNCHANGED << tp, tokenizer, train_csv, test_csv, lt, sanVars, joinVars, mainVars >>

TpNext == TrainTokenizer \/ LoadAndTokenize \/ TokenizeSingleSentence

SpecTok == TpInit /\ [][TpNext]_vars

Zeros(n) == [j \in 1..n |-> 0]

PaddedAsClaimed(s, x, L) ==
    /\ Len(x) = L
    /\ Len(s) > L => x = SubSeq(s, Len(s) - L + 1, Len(s))
    /\ Len(s) <= L => x = Zeros(L - Len(s)) \o s

\* C3: every encoded comment of the main corpus, of any length, is padded or
\* truncated to exactly L = max_padding_length: a longer one keeps its last L
\* tokens in order, a shorter one is preceded by L - len copies of 0.
C3_PaddedToLength ==
    lt # <<>> =>
        LET r == lt[1]
            L == tp.max_padding_length
        IN  /\ DOMAIN r.X_train = DOMAIN r.train_comments_tokenized
            /\ DOMAIN r.X_test = DOMAIN r.test_comments_tokenized
            /\ \A i \in DOMAIN r.X_train :
                  PaddedAsClaimed(r.train_comments_tokenized[i], r.X_train[i], L)
            /\ \A i \in DOMAIN r.X_test :
                  PaddedAsClaimed(r.test_comments_tokenized[i], r.X_test[i], L)

\* load_and_tokenize returned, with a comment longer than L, a shorter one that
\* is not empty, and an empty one
C3_Witness ==
    /\ lt # <<>>
    /\ lt[1].status = "ok"
    /\ \E i, j, k \in DOMAIN lt[1].train_comments_tokenized :
          /\ Len(lt[1].train_comments_tokenized[i]) > tp.max_padding_length
          /\ Len(lt[1].train_comments_tokenized[j]) \in 1..(tp.max_padding_length - 1)
          /\ Len(lt[1].train_comments_tokenized[k]) = 0

RECURSIVE TopNEncoding(_, _, _)
TopNEncoding(words, word_index, N) ==
    IF words = <<>> THEN <<>>
    ELSE LET i == index_of(word_index, Head(words))
         IN  IF i \in 1..N
             THEN <<i>> \o TopNEncoding(Tail(words), word_index, N)
             ELSE TopNEncoding(Tail(words), word_index, N)

CountOf(tok, w) ==
    LET i == CHOOSE j \in DOMAIN tok.word_counts : tok.word_counts[j].w = w
    IN  tok.word_counts[i].n

\* C4: with the cap N = max_nb_words, encoding keeps the N most frequent words:
\* each is encoded to its index 1..N, indices follow descending frequency,
\* every other word is dropped and 0 encodes no word.
C4_TopNWordsEncoded ==
    (lt # <<>> /\ tp_last = "load_and_tokenize") =>
        LET r == lt[1]
        IN  /\ \A p, q \in DOMAIN r.word_index :
                  p < q => CountOf(tokenizer, r.word_index[p]) >= CountOf(tokenizer, r.word_index[q])
            /\ \A i \in DOMAIN r.train_comments :
                  r.train_comments_tokenized[i] =
                      TopNEncoding(text_to_word_sequence(r.train_comments[i]),
                                   r.word_index, tp.max_nb_words)

IsSingleSentenceCall ==
    tp_calls' = tp_calls + 1 /\ tp_last' = "tokenize_single_sentence"

\* the vocabulary has been built: fit_on_texts has taken in some text
VocabularyBuilt == tokenizer.document_count > 0

\* C7: tokenize_single_sentence on a TextPreprocessor whose train_tokenizer has
\* never run raises VocabularyNotBuiltError and returns no token sequence.
C7_RaisesBeforeVocabulary ==
    [][(IsSingleSentenceCall /\ ~VocabularyBuilt) =>
          (ss'[1].status = "VocabularyNotBuiltError" /\ ss'[1].value = <<>>)]_vars

\* what the main pipeline yields for a one-row corpus holding s, given the
\* vocabulary as it is: sanitize, encode, pad to max_padding_length
MainPath(cfg, tok, s) ==
    pad_sequences(texts_to_sequences(tok, NormalizeColumn(<<s>>)).value,
                  cfg.max_padding_length)

\* C8: once the vocabulary is built, tokenize_single_sentence(s) returns the
\* one padded sequence of length L that the main pipeline yields for the
\* one-row corpus holding s.
C8_SingleSentenceIsMainPath ==
    [][(IsSingleSentenceCall /\ VocabularyBuilt) =>
          (ss'[1].status = "ok"
             /\ ss'[1].value = MainPath(tp, tokenizer, ss'[1].sentence))]_vars

\* C9: after the first vocabulary construction no later operation changes the
\* word counts or the token-to-index mapping.
C9_VocabularyWrittenOnce ==
    [][VocabularyBuilt =>
          (/\ tokenizer'.word_counts = tokenizer.word_counts
           /\ tokenizer'.word_index = tokenizer.word_index)]_vars

----------------------------------------------------------------------------
(* sklearn's TfidfVectorizer and Ridge, as feature_engineering uses them   *)

\* words of sklearn's English stop list that the modelled texts hold
StopWords == { <<"y","o","u">>, <<"a","r","e">>, <<"t","h","e">> }

RECURSIVE LetterRun(_)
LetterRun(s) ==
    IF s # <<>> /\ IsAsciiLetter(Head(s)) THEN 1 + LetterRun(Tail(s)) ELSE 0

\* the analyzer's tokens: lowercase, token_pattern \b\w\w+\b (a sanitized
\* text holds no digit and no underscore), stop words removed
RECURSIVE tfidf_tokens(_)
tfidf_tokens(s) ==
    IF s = <<>> THEN <<>>
    ELSE IF ~IsAsciiLetter(Head(s)) THEN tfidf_tokens(Tail(s))
         ELSE LET n == LetterRun(s)
                  w == lower(SubSeq(s, 1, n))
              IN  (IF n >= 2 /\ w \notin StopWords THEN <<w>> ELSE <<>>)
                      \o tfidf_tokens(DropFirst(s, n))

\* ngram_range=(1, 2): the tokens, then the pairs of neighbours
word_ngrams(tokens) ==
    tokens \o [i \in 1..(Len(tokens) - 1) |-> tokens[i] \o <<" ">> \o tokens[i + 1]]

analyze(doc) == word_ngrams(tfidf_tokens(doc))

\* the order of the characters of a term: the space before the letters
RankOf ==
    [c \in Range(AsciiLower) |-> CHOOSE i \in DOMAIN AsciiLower : AsciiLower[i] = c]

CharRank(c) == IF c \in DOMAIN RankOf THEN RankOf[c] ELSE 0

RECURSIVE LexLess(_, _)
LexLess(a, b) ==
    IF a = <<>> THEN b # <<>>
    ELSE IF b = <<>> THEN FALSE
    ELSE IF Head(a) = Head(b) THEN LexLess(Tail(a), Tail(b))
    ELSE CharRank(Head(a)) < CharRank(Head(b))

\* sorted(terms)
RECURSIVE SortTerms(_)
SortTerms(terms) ==
    IF terms = {} THEN <<>>
    ELSE LET least == CHOOSE t \in terms : \A u \in terms \ {t} : LexLess(t, u)
         IN  <<least>> \o SortTerms(terms \ {least})

Occurrences(seq, x) == Cardinality({ k \in DOMAIN seq : seq[k] = x })

\* main's vocab_size: max_features of every vectorizer
vocab_size == 60000

\* TfidfVectorizer(ngram_range=(1, 2), max_features=..., use_idf=1,
\* stop_words='english', smooth_idf=1, sublinear_tf=1): not fit yet
TfidfVectorizer(max_features) ==
    [max_features |-> max_features, vocabulary |-> <<>>, df |-> <<>>, n |-> 0]

\* TfidfVectorizer.fit: vocabulary_ maps the terms, sorted, to the columns,
\* and idf_ is ln((1 + n) / (1 + df)) + 1, kept here as df and n; what the
\* vectorizer held before is overwritten.  A corpus of the model has fewer
\* than max_features terms, so none is pruned.
tfidf_fit(tfidfer, docs) ==
    LET grams == [i \in DOMAIN docs |-> analyze(docs[i])]
        vocabulary == SortTerms(UNION { Range(grams[i]) : i \in DOMAIN docs })
    IN  [max_features |-> tfidfer.max_features,
         vocabulary |-> vocabulary,
         df |-> [j \in DOMAIN vocabulary |->
                   Cardinality({ i \in DOMAIN docs : Occurrences(grams[i], vocabulary[j]) > 0 })],
         n |-> Len(docs)]

\* one entry of a tf-idf row: (1 + ln tf) * idf before the row is normalized,
\* kept as the numbers it is computed from; 0 where the term is absent
Entry(tf, df, n) ==
    IF tf = 0 THEN [tf |-> 0, df |-> 0, n |-> 0] ELSE [tf |-> tf, df |-> df, n |-> n]

\* TfidfVectorizer.transform(docs): the matrix, and the vectorizer it leaves
tfidf_transform(tfidfer, docs) ==
    [self |-> tfidfer,
     out |-> [i \in DOMAIN docs |->
                LET grams == analyze(docs[i])
                IN  [j \in DOMAIN tfidfer.vocabulary |->
                        Entry(Occurrences(grams, tfidfer.vocabulary[j]),
                              tfidfer.df[j], tfidfer.n)]]]

\* TfidfVectorizer.fit_transform(docs)
tfidf_fit_transform(tfidfer, docs) ==
    tfidf_transform(tfidf_fit(tfidfer, docs), docs)

\* Ridge(): an estimator that is not fit
Ridge == [fitted |-> FALSE, n_features |-> 0, fit_X |-> <<>>, fit_y |-> <<>>]

\* Ridge.fit(X, y): coef_ and intercept_ are the ridge solution for (X, y),
\* alpha = 1.0; what the estimator held before is overwritten.  The solution
\* is kept as the data that determines it.
ridge_fit(estimator, X, y) ==
    [fitted |-> TRUE, n_features |-> Len(X[1]), fit_X |-> X, fit_y |-> y]

\* Ridge.predict(X): per row coef_ . x + intercept_, kept as the pair of the
\* fit and the row; a row of another width raises ValueError.  The estimator
\* it leaves is returned with the predictions.
ridge_predict(estimator, X) ==
    [self |-> estimator,
     status |-> IF \E i \in DOMAIN X : Len(X[i]) # estimator.n_features
                THEN "ValueError" ELSE "ok",
     out |-> [i \in DOMAIN X |->
                [fit_X |-> estimator.fit_X, fit_y |-> estimator.fit_y, x |-> X[i]]]]

----------------------------------------------------------------------------
(* feature_engineering.Tfidfize, TfidfAndPredict, main                     *)

CommentsOf(df) == [i \in DOMAIN df |-> df[i].comment]

\* Tfidfize(df, vocab_size)
Tfidfize(df, max_vocab) ==
    LET tfidf_out == tfidf_fit_transform(TfidfVectorizer(max_vocab), CommentsOf(df))
    IN  [X |-> tfidf_out.out, tfidfer |-> tfidf_out.self]

\* TfidfAndPredict with fit_transform in the place of transform
TfidfAndPredictRefit(tfidfer, estimator, train_text, test_text) ==
    LET tfidf_train == tfidf_fit_transform(tfidfer, train_text)
        tfidf_test == tfidf_fit_transform(tfidf_train.self, test_text)
        train_scores == ridge_predict(estimator, tfidf_train.out)
        test_scores == ridge_predict(train_scores.self, tfidf_test.out)
    IN  [tfidfer |-> tfidf_test.self,
         estimator |-> test_scores.self,
         status |-> IF train_scores.status # "ok" THEN train_scores.status
                    ELSE test_scores.status,
         train |-> train_scores.out,
         test |-> test_scores.out]

\* TfidfAndPredict(tfidfer, model, train, test): the two score columns, and
\* the vectorizer and the estimator as the calls leave them
TfidfAndPredict(tfidfer, estimator, train_text, test_text) ==
    LET tfidf_train == tfidf_transform(tfidfer, train_text)
        tfidf_test == tfidf_transform(tfidf_train.self, test_text)
        train_scores == ridge_predict(estimator, tfidf_train.out)
        test_scores == ridge_predict(train_scores.self, tfidf_test.out)
    IN  [tfidfer |-> tfidf_test.self,
         estimator |-> test_scores.self,
         status |-> IF train_scores.status # "ok" THEN train_scores.status
                    ELSE test_scores.status,
         train |-> train_scores.out,
         test |-> test_scores.out]

Labels == { "toxicity", "attack", "aggression" }

\* the column of train and test that main gives a label's scores
ScoreColumn ==
    [toxicity |-> "toxic_level", attack |-> "attack", aggression |-> "aggression"]

\* toxic['toxicity'].values and its like: the averaged annotation column
TargetsOf(df) == [i \in DOMAIN df |-> df[i].score]

\* main's variable ridge: the one Ridge object it creates
ridge == 1

NumAuxFiles == 3       \* the annotated corpora a label's files may hold
NumTargetFiles == 2    \* the comment columns train.csv and test.csv may hold

Word(k) == << AsciiLower[k], AsciiLower[k] >>

\* an annotated corpus: every comment annotated, comment 1 twice; the even
\* ones hold one term more than the odd ones
AuxFile(k) ==
    [cmt |-> << [rev_id |-> 1, comment |-> Word(k) \o <<" ">> \o Word(k + 1)],
                [rev_id |-> 2, comment |-> IF k % 2 = 0 THEN Word(k + 2)
                                           ELSE <<"U", " ">> \o Word(k + 1)] >>,
     annot |-> << [rev_id |-> 1, value |-> 1],
                  [rev_id |-> 1, value |-> k % 2],
                  [rev_id |-> 2, value |-> 0] >>]

TargetFile(k) ==
    << Word(k) \o <<" ">> \o Word(k + 1) \o <<"!", "!">>, NaN, Word(k + 1) >>

Frame(comment_text) ==
    [comment_text |-> comment_text, toxic_level |-> <<>>, attack |-> <<>>,
     aggression |-> <<>>]

\* main, lines 117-124 and 157-158: the files as read
MainInit ==
    /\ SanIdle /\ JoinIdle /\ TpIdle
    /\ pc = "join"
    /\ \E a, b, c \in 1..NumAuxFiles, t, u \in 1..NumTargetFiles :
          files = [toxicity |-> AuxFile(a), attack |-> AuxFile(b),
                   aggression |-> AuxFile(c),
                   train |-> TargetFile(t), test |-> TargetFile(u)]
    /\ corpus = <<>> /\ tfidf = <<>> /\ heap = <<>>
    /\ models = [l \in Labels |-> 0]
    /\ frames = <<>>
    /\ scores = [l \in Labels |-> <<>>]

\* lines 126-128
MainJoin ==
    /\ pc = "join"
    /\ corpus' = [l \in Labels |-> JoinAndSanitize(files[l].cmt, files[l].annot)]
    /\ pc' = "tfidfize"
    /\ UNCHANGED << files, tfidf, heap, models, frames, scores >>
    /\ UNCHANGED << sanVars, joinVars, tpVars >>

\* lines 130-135
MainTfidfize ==
    /\ pc = "tfidfize"
    /\ tfidf' = [l \in Labels |-> Tfidfize(corpus[l], vocab_size)]
    /\ pc' = "ridge"
    /\ UNCHANGED << files, corpus, heap, models, frames, scores >>
    /\ UNCHANGED << sanVars, joinVars, tpVars >>

\* lines 141-148: ridge = Ridge(); cross_val_score fits clones of the
\* estimator, so ridge itself stays as it is
MainRidge ==
    /\ pc = "ridge"
    /\ heap' = << Ridge >>
    /\ pc' = "fit_toxicity"
    /\ UNCHANGED << files, corpus, tfidf, models, frames, scores >>
    /\ UNCHANGED << sanVars, joinVars, tpVars >>

\* lines 151, 153, 155: model_<label> = ridge.fit(X_<label>, y_<label>);
\* fit returns the estimator itself
MainFit(l, next) ==
    /\ pc = "fit_" \o l
    /\ heap' = [heap EXCEPT ![ridge] =
                    ridge_fit(heap[ridge], tfidf[l].X, TargetsOf(corpus[l]))]
    /\ models' = [models EXCEPT ![l] = ridge]
    /\ pc' = next
    /\ UNCHANGED << files, corpus, tfidf, frames, scores >>
    /\ UNCHANGED << sanVars, joinVars, tpVars >>

\* lines 157-160
MainSanitize ==
    /\ pc = "sanitize"
    /\ frames' =
          [train |-> Frame([i \in DOMAIN files.train |-> Sanitize(files.train[i])]),
           test |-> Frame([i \in DOMAIN files.test |-> Sanitize(files.test[i])])]
    /\ pc' = "predict_toxicity"
    /\ UNCHANGED << files, corpus, tfidf, heap, models, scores >>
    /\ UNCHANGED << sanVars, joinVars, tpVars >>

\* lines 164-173: one TfidfAndPredict call; a ValueError ends main
MainPredict(l, next) ==
    /\ pc = "predict_" \o l
    /\ LET r == TfidfAndPredict(tfidf[l].tfidfer, heap[models[l]],
                                frames.train.comment_text, frames.test.comment_text)
       IN  /\ tfidf' = [tfidf EXCEPT ![l].tfidfer = r.tfidfer]
           /\ heap' = [heap EXCEPT ![models[l]] = r.estimator]
           /\ IF r.status = "ok"
              THEN /\ scores' = [scores EXCEPT ![l] = [train |-> r.train, test |-> r.test]]
                   /\ pc' = next
              ELSE /\ pc' = r.status
                   /\ UNCHANGED scores
    /\ UNCHANGED << files, corpus, models, frames >>
    /\ UNCHANGED << sanVars, joinVars, tpVars >>

\* lines 175-184
MainAttach ==
    /\ pc = "attach"
    /\ frames' =
          [train |-> [frames.train EXCEPT !.toxic_level = scores["toxicity"].train,
                                          !.attack = scores["attack"].train,
                                          !.aggression = scores["aggression"].train],
           test |-> [frames.test EXCEPT !.toxic_level = scores["toxicity"].test,
                                        !.attack = scores["attack"].test,
                                        !.aggression = scores["aggression"].test]]
    /\ pc' = "done"
    /\ UNCHANGED << files, corpus, tfidf, heap, models, scores >>
    /\ UNCHANGED << sanVars, joinVars, tpVars >>

MainNext ==
    \/ MainJoin
    \/ MainTfidfize
    \/ MainRidge
    \/ MainFit("toxicity", "fit_attack")
    \/ MainFit("attack", "fit_aggression")
    \/ MainFit("aggression", "sanitize")
    \/ MainSanitize
    \/ MainPredict("toxicity", "predict_attack")
    \/ MainPredict("attack", "predict_aggression")
    \/ MainPredict("aggression", "attach")
    \/ MainAttach

SpecMain == MainInit /\ [][MainNext]_vars

\* the estimator a label's own corpus gives, fit on nothing else
OwnFit(l) == ridge_fit(Ridge, tfidf[l].X, TargetsOf(corpus[l]))

\* C1: for each label the scores attached to train and test are predicted by
\* weights fit on that label's own corpus and no other, and fitting a later
\* label never changes the fitted model of an earlier one.
C1_ScoresFromOwnLabelFit ==
    \A l \in Labels :
        /\ models[l] # 0 => heap[models[l]] = OwnFit(l)
        /\ pc = "done" =>
              LET r == TfidfAndPredict(tfidf[l].tfidfer, OwnFit(l),
                                       frames.train.comment_text,
                                       frames.test.comment_text)
              IN  /\ frames.train[ScoreColumn[l]] = r.train
                  /\ frames.test[ScoreColumn[l]] = r.test

\* C10: scoring never refits or mutates a fitted model: every vectorizer is
\* as its fit left it, and scoring the train and test text again, after the
\* other corpora were scored, yields the predictions recorded before.
C10_ScoringLeavesModelsUnchanged ==
    \A l \in Labels :
        /\ tfidf # <<>> =>
              tfidf[l].tfidfer =
                  tfidf_fit(TfidfVectorizer(vocab_size), CommentsOf(corpus[l]))
        /\ scores[l] # <<>> =>
              LET r == TfidfAndPredict(tfidf[l].tfidfer, heap[models[l]],
                                       frames.train.comment_text,
                                       frames.test.comment_text)
              IN  /\ r.status = "ok"
                  /\ scores[l].train = r.train
                  /\ scores[l].test = r.test

\* main has scored the three labels on a train and a test corpus that differ
C10_Witness ==
    /\ pc = "done"
    /\ frames.train.comment_text # frames.test.comment_text
    /\ \A l \in Labels : scores[l] # <<>> /\ frames.train[ScoreColumn[l]] = scores[l].train

====
